---- MODULE Spec2Model ----
(***************************************************************************)
(* State-machine model of src/plugins/chat_logger.py (ChatLoggerPlugin):   *)
(* the plugin instance fields, the backing database, and the coroutines    *)
(* initialize / destroy / on_group_message_received /                      *)
(* on_normal_message_responded, cut at their real suspension points        *)
(* (create_all, session.commit, engine.dispose).                           *)
(*                                                                         *)
(* Python values are tagged records V(t, s, n): t is the dynamic type      *)
(* ("str", "int", "none") or "absent" when the attribute does not exist    *)
(* (hasattr is False, plain access raises AttributeError).  Text is a      *)
(* sequence of one-character strings so that strip() and str() are         *)
(* computed, not assumed.                                                  *)
(***************************************************************************)
EXTENDS Integers, Sequences, FiniteSets, TLC

\* ------------------------------------------------------------ bounds
\* Number of events the dispatcher delivers in one run.
MaxEvents == 2
\* Number of times the host calls destroy().
MaxDestroy == 2
\* Number of sub-parts of a composite message chain.
MaxParts == 2

\* ------------------------------------------------------------ values
StrV(s) == [t |-> "str", s |-> s, n |-> 0]
IntV(n) == [t |-> "int", s |-> <<>>, n |-> n]
NoneV == [t |-> "none", s |-> <<>>, n |-> 0]
Absent == [t |-> "absent", s |-> <<>>, n |-> 0]

\* hasattr(obj, name)
HasAttr(v) == v.t # "absent"

\* isinstance(x, str)
IsStr(v) == v.t = "str"

\* Python truthiness of a present value: '' / 0 / None are falsy.
Truthy(v) ==
    CASE v.t = "str" -> v.s # <<>>
      [] v.t = "int" -> v.n # 0
      [] OTHER -> FALSE

Digits == <<"0", "1", "2", "3", "4", "5", "6", "7", "8", "9">>

\* str(n) for a non-negative int: its decimal digits.
RECURSIVE IntToStr(_)
IntToStr(n) ==
    IF n < 10 THEN <<Digits[n + 1]>>
    ELSE IntToStr(n \div 10) \o <<Digits[(n % 10) + 1]>>

\* str(x): a str is itself, an int its decimal rendering, None is 'None'.
ToStr(v) ==
    CASE v.t = "str" -> v.s
      [] v.t = "int" -> IntToStr(v.n)
      [] OTHER -> <<"N", "o", "n", "e">>

Whitespace == {" ", "\t"}

RECURSIVE LStrip(_)
LStrip(s) ==
    IF s = <<>> THEN <<>>
    ELSE IF Head(s) \in Whitespace THEN LStrip(Tail(s)) ELSE s

RECURSIVE RStrip(_)
RStrip(s) ==
    IF s = <<>> THEN <<>>
    ELSE IF s[Len(s)] \in Whitespace THEN RStrip(SubSeq(s, 1, Len(s) - 1)) ELSE s

\* str.strip()
Strip(s) == RStrip(LStrip(s))

\* ------------------------------------------------------------ results
\* A computation either returns a value or raises (an Exception subclass).
Ok(x) == [raised |-> FALSE, val |-> x]
Raise == [raised |-> TRUE, val |-> <<>>]

\* ------------------------------------------------------------ events
\* One sub-part of a composite message chain: its text attribute, its content
\* attribute, and raw (the part itself when the part is a plain str).
Part(text, content, raw) == [text |-> text, content |-> content, raw |-> raw]

\* event.message_chain: hasMessages/messages model the `messages` attribute,
\* text the `text` attribute, plain the chain itself when it is a str, and
\* repr what str(chain) renders.
Chain(hasMessages, messages, text, plain, repr) ==
    [hasMessages |-> hasMessages, messages |-> messages, text |-> text,
     plain |-> plain, repr |-> repr]

NoChain == Chain(FALSE, <<>>, Absent, Absent, <<>>)

\* ctx.event of a GroupMessageReceived delivery.
GroupMessageReceived(launcher_id, sender_id, sender_name, sender_nickname, sender_card, chain) ==
    [kind |-> "group_message", launcher_type |-> Absent, launcher_id |-> launcher_id,
     sender_id |-> sender_id, sender_name |-> sender_name,
     sender_nickname |-> sender_nickname, sender_card |-> sender_card,
     message_chain |-> chain, prefix |-> Absent, response_text |-> Absent,
     bot_account_id |-> Absent]

\* ctx.event of a NormalMessageResponded delivery; bot_account_id is
\* ctx.event.query.adapter.bot_account_id (Absent: no adapter or no attribute).
NormalMessageResponded(launcher_type, launcher_id, prefix, response_text, bot_account_id) ==
    [kind |-> "bot_response", launcher_type |-> launcher_type, launcher_id |-> launcher_id,
     sender_id |-> Absent, sender_name |-> Absent,
     sender_nickname |-> Absent, sender_card |-> Absent,
     message_chain |-> NoChain, prefix |-> prefix, response_text |-> response_text,
     bot_account_id |-> bot_account_id]

NoEvent == GroupMessageReceived(Absent, Absent, Absent, Absent, Absent, NoChain)

\* ------------------------------------------------------------ GroupFilter
\* Mutant: the blacklist is not consulted.
ShouldLogGroupNoBlacklist(group_id, wl, bl) ==
    LET group_id_str == ToStr(group_id) IN
    IF wl # {} /\ group_id_str \notin wl THEN FALSE
    ELSE TRUE

\* _should_log_group(group_id) under whitelist wl and blacklist bl.
ShouldLogGroup(group_id, wl, bl) ==
    LET group_id_str == ToStr(group_id) IN
    IF wl # {} /\ group_id_str \notin wl THEN FALSE
    ELSE IF group_id_str \in bl THEN FALSE
    ELSE TRUE

\* ------------------------------------------------------------ MessageNormalizer
\* One iteration of the loop over message_chain.messages: acc is message_text.
AddPart(acc, msg) ==
    IF acc.raised THEN acc
    ELSE IF HasAttr(msg.text)
    THEN IF IsStr(msg.text) THEN Ok(acc.val \o msg.text.s) ELSE Raise
    ELSE IF HasAttr(msg.content) /\ IsStr(msg.content) THEN Ok(acc.val \o msg.content.s)
    ELSE IF IsStr(msg.raw) THEN Ok(acc.val \o msg.raw.s)
    ELSE acc

RECURSIVE JoinParts(_, _)
JoinParts(acc, msgs) ==
    IF msgs = <<>> THEN acc
    ELSE JoinParts(AddPart(acc, Head(msgs)), Tail(msgs))

\* Mutant: the chain's own text attribute is probed before its messages.
ExtractTextDirectFirst(chain) ==
    IF HasAttr(chain.text) THEN Ok(chain.text)
    ELSE IF chain.hasMessages
    THEN LET r == JoinParts(Ok(<<>>), chain.messages) IN
         IF r.raised THEN Raise ELSE Ok(StrV(r.val))
    ELSE IF IsStr(chain.plain) THEN Ok(chain.plain)
    ELSE Ok(StrV(chain.repr))

\* "Extract message text": the value bound to message_text, or a raise.
ExtractText(chain) ==
    IF chain.hasMessages
    THEN LET r == JoinParts(Ok(<<>>), chain.messages) IN
         IF r.raised THEN Raise ELSE Ok(StrV(r.val))
    ELSE IF HasAttr(chain.text) THEN Ok(chain.text)
    ELSE IF IsStr(chain.plain) THEN Ok(chain.plain)
    ELSE Ok(StrV(chain.repr))

\* Mutant: the sender's nickname and card are consulted before sender_name.
NicknameFromSenderFirst(ev) ==
    IF HasAttr(ev.sender_nickname) THEN ev.sender_nickname
    ELSE IF HasAttr(ev.sender_card) THEN ev.sender_card
    ELSE IF HasAttr(ev.sender_name) THEN ev.sender_name
    ELSE NoneV

\* "Get nickname if available".
Nickname(ev) ==
    IF HasAttr(ev.sender_name) THEN ev.sender_name
    ELSE IF HasAttr(ev.sender_nickname) THEN ev.sender_nickname
    ELSE IF HasAttr(ev.sender_card) THEN ev.sender_card
    ELSE NoneV

\* ------------------------------------------------------------ handler bodies
\* What a handler's synchronous part decides: res is "raise" (an exception
\* left the body), "flagoff", "nongroup", "filtered", "blank", or "save" with
\* the arguments passed to _save_chat_record.
Decide(res) == [res |-> res, user_id |-> Absent, nickname |-> Absent,
                message |-> <<>>, group_id |-> Absent, is_bot_message |-> FALSE]

SaveArgs(user_id, nickname, message, group_id, is_bot_message) ==
    [res |-> "save", user_id |-> user_id, nickname |-> nickname,
     message |-> message, group_id |-> group_id, is_bot_message |-> is_bot_message]

\* Mutant: the group filter is not applied to group messages.
GroupMessageBodyNoFilter(ev, wl, bl) ==
    IF ~HasAttr(ev.launcher_id) THEN Decide("raise")
    ELSE LET t == ExtractText(ev.message_chain) IN
         IF t.raised THEN Decide("raise")
         ELSE IF ~IsStr(t.val) THEN Decide("raise")
         ELSE IF Strip(t.val.s) = <<>> THEN Decide("blank")
         ELSE IF ~HasAttr(ev.sender_id) THEN Decide("raise")
         ELSE SaveArgs(ev.sender_id, Nickname(ev), t.val.s, ev.launcher_id, FALSE)

\* Mutant: empty messages are not skipped.
GroupMessageBodyNoBlankCheck(ev, wl, bl) ==
    IF ~HasAttr(ev.launcher_id) THEN Decide("raise")
    ELSE IF ~ShouldLogGroup(ev.launcher_id, wl, bl) THEN Decide("filtered")
    ELSE LET t == ExtractText(ev.message_chain) IN
         IF t.raised THEN Decide("raise")
         ELSE IF ~IsStr(t.val) THEN Decide("raise")
         ELSE IF ~HasAttr(ev.sender_id) THEN Decide("raise")
         ELSE SaveArgs(ev.sender_id, Nickname(ev), t.val.s, ev.launcher_id, FALSE)

\* Body of on_group_message_received inside its try block.
GroupMessageBody(ev, wl, bl) ==
    IF ~HasAttr(ev.launcher_id) THEN Decide("raise")
    ELSE IF ~ShouldLogGroup(ev.launcher_id, wl, bl) THEN Decide("filtered")
    ELSE LET t == ExtractText(ev.message_chain) IN
         IF t.raised THEN Decide("raise")
         ELSE IF ~IsStr(t.val) THEN Decide("raise")
         ELSE IF Strip(t.val.s) = <<>> THEN Decide("blank")
         ELSE IF ~HasAttr(ev.sender_id) THEN Decide("raise")
         ELSE SaveArgs(ev.sender_id, Nickname(ev), t.val.s, ev.launcher_id, FALSE)

BotSentinelId == StrV(<<"b", "o", "t">>)
BotNickname == StrV(<<"L", "a", "n", "g", "B", "o", "t">>)
GroupType == StrV(<<"g", "r", "o", "u", "p">>)

\* full_response += segment, guarded by `if segment:`.
AddSegment(acc, seg) ==
    IF acc.raised THEN acc
    ELSE IF ~HasAttr(seg) THEN Raise
    ELSE IF ~Truthy(seg) THEN acc
    ELSE IF IsStr(seg) THEN Ok(acc.val \o seg.s)
    ELSE Raise

\* Mutant: the response text is added before the prefix.
FullResponseBodyFirst(ev) == AddSegment(AddSegment(Ok(<<>>), ev.response_text), ev.prefix)

\* "Combine prefix and response text".
FullResponse(ev) == AddSegment(AddSegment(Ok(<<>>), ev.prefix), ev.response_text)

\* "Get bot user ID from adapter or use a default".
BotUserId(ev) == IF HasAttr(ev.bot_account_id) THEN ev.bot_account_id ELSE BotSentinelId

\* Mutant: responses to every launcher type are logged.
BotResponseBodyAnyLauncher(ev, include, wl, bl) ==
    IF ~include THEN Decide("flagoff")
    ELSE IF ~HasAttr(ev.launcher_type) THEN Decide("raise")
    ELSE IF ~HasAttr(ev.launcher_id) THEN Decide("raise")
    ELSE IF ~ShouldLogGroup(ev.launcher_id, wl, bl) THEN Decide("filtered")
    ELSE LET f == FullResponse(ev) IN
         IF f.raised THEN Decide("raise")
         ELSE IF Strip(f.val) = <<>> THEN Decide("blank")
         ELSE SaveArgs(BotUserId(ev), BotNickname, f.val, ev.launcher_id, TRUE)

\* Mutant: only the empty response is skipped, a whitespace-only one is saved.
BotResponseBodyNoStrip(ev, include, wl, bl) ==
    IF ~include THEN Decide("flagoff")
    ELSE IF ~HasAttr(ev.launcher_type) THEN Decide("raise")
    ELSE IF ev.launcher_type # GroupType THEN Decide("nongroup")
    ELSE IF ~HasAttr(ev.launcher_id) THEN Decide("raise")
    ELSE IF ~ShouldLogGroup(ev.launcher_id, wl, bl) THEN Decide("filtered")
    ELSE LET f == FullResponse(ev) IN
         IF f.raised THEN Decide("raise")
         ELSE IF f.val = <<>> THEN Decide("blank")
         ELSE SaveArgs(BotUserId(ev), BotNickname, f.val, ev.launcher_id, TRUE)

\* Body of on_normal_message_responded inside its try block.
BotResponseBody(ev, include, wl, bl) ==
    IF ~include THEN Decide("flagoff")
    ELSE IF ~HasAttr(ev.launcher_type) THEN Decide("raise")
    ELSE IF ev.launcher_type # GroupType THEN Decide("nongroup")
    ELSE IF ~HasAttr(ev.launcher_id) THEN Decide("raise")
    ELSE IF ~ShouldLogGroup(ev.launcher_id, wl, bl) THEN Decide("filtered")
    ELSE LET f == FullResponse(ev) IN
         IF f.raised THEN Decide("raise")
         ELSE IF Strip(f.val) = <<>> THEN Decide("blank")
         ELSE SaveArgs(BotUserId(ev), BotNickname, f.val, ev.launcher_id, TRUE)

HandlerBody(ev, include, wl, bl) ==
    IF ev.kind = "group_message" THEN GroupMessageBody(ev, wl, bl)
    ELSE BotResponseBody(ev, include, wl, bl)

\* The ChatRecord built by _save_chat_record for event e from its arguments.
ChatRecord(e, a) ==
    [ev |-> e, user_id |-> ToStr(a.user_id), nickname |-> a.nickname,
     message |-> a.message, group_id |-> ToStr(a.group_id),
     is_bot_message |-> a.is_bot_message]

NoRecord == [ev |-> 0, user_id |-> <<>>, nickname |-> Absent, message |-> <<>>,
             group_id |-> <<>>, is_bot_message |-> FALSE]

\* ------------------------------------------------------------ inputs
\* The (whitelist, blacklist) pairs a configuration may hold: unrestricted,
\* a whitelist naming one group, a blacklist naming one group, and a group
\* named by both.
Policies == {<<{}, {}>>, <<{<<"2">>}, {}>>, <<{}, {<<"1">>}>>, <<{<<"2">>}, {<<"2">>}>>}

PlainChain(s) == Chain(FALSE, <<>>, Absent, StrV(s), s)
DirectChain(v) == Chain(FALSE, <<>>, v, Absent, <<"<", "o", ">">>)

Hi == <<"h", "i">>

\* Group messages the dispatcher delivers: text from group "1" (a str id),
\* text from group 2 (an int id, another sender, no sender name), an event
\* without launcher_id (malformed), a chain whose text attribute is None
\* (normalization fails), and whitespace-only text.
GroupEvents ==
    {GroupMessageReceived(StrV(<<"1">>), StrV(<<"u">>), StrV(<<"A">>), Absent, Absent, PlainChain(Hi)),
     GroupMessageReceived(IntV(2), IntV(7), Absent, Absent, Absent, PlainChain(Hi)),
     GroupMessageReceived(Absent, StrV(<<"u">>), StrV(<<"A">>), Absent, Absent, PlainChain(Hi)),
     GroupMessageReceived(StrV(<<"1">>), StrV(<<"u">>), StrV(<<"A">>), Absent, Absent, DirectChain(NoneV)),
     GroupMessageReceived(StrV(<<"1">>), StrV(<<"u">>), StrV(<<"A">>), Absent, Absent, PlainChain(<<" ">>))}

PersonType == StrV(<<"p", "e", "r", "s", "o", "n">>)

\* Bot responses the dispatcher delivers: prefix and body to group "1" with
\* no adapter id, the same to a private conversation, and a body-only
\* whitespace response to group 2 with an adapter id.
BotEvents ==
    {NormalMessageResponded(GroupType, StrV(<<"1">>), StrV(<<"p">>), StrV(<<"r">>), Absent),
     NormalMessageResponded(PersonType, StrV(<<"1">>), StrV(<<"p">>), StrV(<<"r">>), Absent),
     NormalMessageResponded(GroupType, IntV(2), NoneV, StrV(<<" ">>), StrV(<<"b">>))}

EventInputs == GroupEvents \cup BotEvents

\* ------------------------------------------------------------ state
VARIABLES
    engine,               \* self.engine is not None
    session_factory,      \* self.session_factory is not None
    include_bot_messages, \* self.include_bot_messages
    group_whitelist,      \* self.group_whitelist
    group_blacklist,      \* self.group_blacklist
    initPc,               \* initialize(): "idle", "schema" (awaiting create_all), "ok" (returned), "failed" (raised)
    initError,            \* where initialize failed: "none", "engine", "connect", "schema"
    records,              \* rows of chat_records, in id order
    sessions,             \* events whose handler holds an open session
    h,                    \* per delivered event: the handler coroutine's position and locals
    destroyCalls,         \* calls of destroy() that returned
    disposeCalls,         \* calls of engine.dispose()
    escaped,              \* exceptions that left a handler or destroy()
    probe                 \* the last direct call of a pure method and its result

vars == <<engine, session_factory, include_bot_messages, group_whitelist,
          group_blacklist, initPc, initError, records, sessions,
          h, destroyCalls, disposeCalls, escaped, probe>>

Events == 1..MaxEvents

config == <<include_bot_messages, group_whitelist, group_blacklist>>
plugin == <<engine, session_factory>>
lifecycle == <<initPc, initError>>
shutdown == <<destroyCalls, disposeCalls>>

\* pc: "new" (not delivered), "commit" (suspended in session.commit()), "done"
\* (returned).  ev, rec: the handler's event and the ChatRecord it built.
\* outcome: how it returned.  attempts: sessions it opened.  initAt, shutAt,
\* afterFailure: initialize()'s position, whether dispose() had run and
\* whether an earlier handler had failed when it was delivered.
NewHandler == [pc |-> "new", ev |-> NoEvent, rec |-> NoRecord, outcome |-> "none",
               attempts |-> 0, initAt |-> "idle", shutAt |-> FALSE,
               afterFailure |-> FALSE]

NoProbe == [fn |-> "none"]

\* __init__ (lines 52-61).
Init ==
    /\ engine = FALSE
    /\ session_factory = FALSE
    /\ include_bot_messages = TRUE
    /\ group_whitelist = {}
    /\ group_blacklist = {}
    /\ initPc = "idle"
    /\ initError = "none"
    /\ records = <<>>
    /\ sessions = {}
    /\ h = [e \in Events |-> NewHandler]
    /\ destroyCalls = 0
    /\ disposeCalls = 0
    /\ escaped = 0
    /\ probe = NoProbe

\* ------------------------------------------------------------ initialize
\* `except Exception as e: ... raise` of initialize and _init_database: a
\* failure is logged and re-raised, so initialize ends "failed"; otherwise "ok".
InitializeReturn(raised) == IF raised THEN "failed" ELSE "ok"

\* initialize() up to its first suspension: load the configuration, then
\* _init_database creates the engine and the session factory (lines 65-97).
\* create_async_engine may raise (bad URL, missing driver).
InitBegin ==
    /\ initPc = "idle"
    /\ \E inc \in BOOLEAN, pol \in Policies, engineRaises \in BOOLEAN :
        /\ include_bot_messages' = inc
        /\ group_whitelist' = pol[1]
        /\ group_blacklist' = pol[2]
        /\ IF engineRaises
           THEN /\ initPc' = InitializeReturn(TRUE)
                /\ initError' = "engine"
                /\ UNCHANGED plugin
           ELSE /\ initPc' = "schema"
                /\ initError' = "none"
                /\ engine' = TRUE
                /\ session_factory' = TRUE
    /\ UNCHANGED <<records, sessions, h, shutdown, escaped, probe>>

\* `async with self.engine.begin() as conn: await conn.run_sync(create_all)`
\* succeeds (lines 100-103) and initialize returns.
InitSchemaOk ==
    /\ initPc = "schema"
    /\ initPc' = InitializeReturn(FALSE)
    /\ UNCHANGED <<initError, plugin, config, records, sessions, h, shutdown, escaped, probe>>

\* engine.begin() (connection) or create_all (schema) raises (lines 100-107).
InitSchemaFail ==
    /\ initPc = "schema"
    /\ \E at \in {"connect", "schema"} : initError' = at
    /\ initPc' = InitializeReturn(TRUE)
    /\ UNCHANGED <<plugin, config, records, sessions, h, shutdown, escaped, probe>>

\* ------------------------------------------------------------ destroy
\* `except Exception` of destroy (lines 260-261): a dispose failure is logged.
DestroyReturn(raised) == FALSE

\* destroy(): dispose the engine if there is one.  dispose() leaves
\* self.engine and self.session_factory as they are, and the engine stays
\* usable: SQLAlchemy replaces the pool by a fresh one.  The host calls
\* destroy() before, after or without initialize(), not while it is running.
Destroy ==
    /\ destroyCalls < MaxDestroy
    /\ initPc # "schema"
    /\ destroyCalls' = destroyCalls + 1
    /\ IF engine
       THEN \E disposeRaises \in BOOLEAN :
              /\ disposeCalls' = disposeCalls + 1
              /\ escaped' = escaped + (IF DestroyReturn(disposeRaises) THEN 1 ELSE 0)
       ELSE UNCHANGED <<disposeCalls, escaped>>
    /\ UNCHANGED <<plugin, config, lifecycle, records, sessions, h, probe>>

\* ------------------------------------------------------------ handlers
\* Mutant: the handler has no try/except; an exception reaches the dispatcher.
HandlerReturnNoCatch(res) == res

\* `except Exception` at the handler boundary (lines 205-206, 251-252): an
\* exception from the body is logged and the handler returns normally.
HandlerReturn(res) == IF res = "raise" THEN "error" ELSE res

\* `except Exception` of _save_chat_record (lines 147-148).
SaveReturn(res) == IF res = "raise" THEN "storefail" ELSE res

\* `if not self.session_factory` (lines 127-129).
SaveGuard(factory) == factory

Failed(e) == h[e].pc = "done" /\ h[e].outcome \in {"error", "storefail", "raise"}

\* The handler of delivery e runs on event ev to its first suspension (await
\* session.commit()) or to its return.
Deliver(e, ev) ==
    /\ h[e].pc = "new"
    /\ \A f \in Events : f < e => h[f].pc # "new"
    /\  LET d == HandlerBody(ev, include_bot_messages, group_whitelist, group_blacklist)
            started == [h[e] EXCEPT !.ev = ev, !.initAt = initPc,
                                    !.shutAt = disposeCalls > 0,
                                    !.afterFailure = \E f \in Events : Failed(f)]
        IN
        IF d.res = "save" /\ SaveGuard(session_factory)
        THEN /\ h' = [h EXCEPT ![e] = [started EXCEPT !.pc = "commit", !.rec = ChatRecord(e, d),
                                                    !.attempts = @ + 1]]
             /\ sessions' = sessions \cup {e}
             /\ UNCHANGED escaped
        ELSE LET out == HandlerReturn(IF d.res = "save" THEN "notready" ELSE d.res) IN
             /\ h' = [h EXCEPT ![e] = [started EXCEPT !.pc = "done", !.outcome = out]]
             /\ escaped' = escaped + (IF out = "raise" THEN 1 ELSE 0)
             /\ UNCHANGED sessions
    /\ UNCHANGED <<plugin, config, lifecycle, records, shutdown, probe>>

\* The dispatcher delivers an event as delivery e.
Dispatch(e) == \E ev \in EventInputs : Deliver(e, ev)

\* Mutant: the record being built is shared by the handlers in flight, so a
\* commit writes the record of the handler that started last.
CommitOkShared(e) ==
    /\ h[e].pc = "commit"
    /\ LET last == CHOOSE f \in sessions : \A g \in sessions : g <= f IN
        records' = Append(records, h[last].rec)
    /\ sessions' = sessions \ {e}
    /\ h' = [h EXCEPT ![e].pc = "done", ![e].outcome = "saved", ![e].rec = NoRecord]
    /\ UNCHANGED <<plugin, config, lifecycle, shutdown, escaped, probe>>

\* Mutant: a commit replaces the table's rows by the new row.
CommitOkOverwrite(e) ==
    /\ h[e].pc = "commit"
    /\ records' = <<h[e].rec>>
    /\ sessions' = sessions \ {e}
    /\ h' = [h EXCEPT ![e].pc = "done", ![e].outcome = "saved", ![e].rec = NoRecord]
    /\ UNCHANGED <<plugin, config, lifecycle, shutdown, escaped, probe>>

\* session.commit() succeeds: the row is inserted, the session is closed by
\* the `async with` exit and the handler returns.  The backend decides
\* whether a commit succeeds: the database file outlives the plugin, so the
\* table may exist whether or not this run's create_all has succeeded, and
\* the engine stays usable after dispose().
CommitOk(e) ==
    /\ h[e].pc = "commit"
    /\ records' = Append(records, h[e].rec)
    /\ sessions' = sessions \ {e}
    /\ h' = [h EXCEPT ![e].pc = "done", ![e].outcome = "saved", ![e].rec = NoRecord]
    /\ UNCHANGED <<plugin, config, lifecycle, shutdown, escaped, probe>>

\* Mutant: a failed commit is retried in a new session.
CommitFailRetry(e) ==
    /\ h[e].pc = "commit"
    /\ h' = [h EXCEPT ![e].attempts = @ + 1]
    /\ UNCHANGED <<plugin, config, lifecycle, records, sessions, shutdown, escaped, probe>>

\* Mutant: a failed commit leaves its session open.
CommitFailLeak(e) ==
    /\ h[e].pc = "commit"
    /\ LET out == HandlerReturn(SaveReturn("raise")) IN
        /\ h' = [h EXCEPT ![e].pc = "done", ![e].outcome = out, ![e].rec = NoRecord]
        /\ escaped' = escaped + (IF out = "raise" THEN 1 ELSE 0)
    /\ UNCHANGED <<plugin, config, lifecycle, records, sessions, shutdown, probe>>

\* session.commit() raises: the `async with` exit closes the session, the
\* exception is caught in _save_chat_record and the handler returns.
CommitFail(e) ==
    /\ h[e].pc = "commit"
    /\ LET out == HandlerReturn(SaveReturn("raise")) IN
        /\ h' = [h EXCEPT ![e].pc = "done", ![e].outcome = out, ![e].rec = NoRecord]
        /\ escaped' = escaped + (IF out = "raise" THEN 1 ELSE 0)
    /\ sessions' = sessions \ {e}
    /\ UNCHANGED <<plugin, config, lifecycle, records, shutdown, probe>>

Next ==
    \/ InitBegin
    \/ InitSchemaOk
    \/ InitSchemaFail
    \/ Destroy
    \/ \E e \in Events : Dispatch(e)
    \/ \E e \in Events : CommitOk(e)
    \/ \E e \in Events : CommitFail(e)

Spec == Init /\ [][Next]_vars

\* ------------------------------------------------------------ GroupFilter alone
\* Names and raw ids for direct calls of _should_log_group.
FilterNames == {<<"1">>, <<"2">>, <<"1", "2">>}
FilterIds == {StrV(<<"1">>), StrV(<<"2">>), StrV(<<"1", "2">>), StrV(<<>>),
              IntV(1), IntV(12), NoneV}

\* The plugin after initialize() has loaded some whitelist and blacklist
\* (lines 71-72).
InitFilter ==
    /\ engine = FALSE
    /\ session_factory = FALSE
    /\ include_bot_messages = TRUE
    /\ group_whitelist \in SUBSET FilterNames
    /\ group_blacklist \in SUBSET FilterNames
    /\ initPc = "idle"
    /\ initError = "none"
    /\ records = <<>>
    /\ sessions = {}
    /\ h = [e \in Events |-> NewHandler]
    /\ destroyCalls = 0
    /\ disposeCalls = 0
    /\ escaped = 0
    /\ probe = NoProbe

\* A call self._should_log_group(g).
CallShouldLogGroup ==
    /\ \E g \in FilterIds :
        probe' = [fn |-> "_should_log_group", arg |-> g,
                  res |-> ShouldLogGroup(g, group_whitelist, group_blacklist)]
    /\ UNCHANGED <<plugin, config, lifecycle, records, sessions, h, shutdown, escaped>>

NextFilter == CallShouldLogGroup

SpecFilter == InitFilter /\ [][NextFilter]_vars

\* ------------------------------------------------------------ one delivery
\* Raw identifiers an event may carry: a str, an int, the empty str, None, or
\* no attribute at all.
CaptureGroupIds == {StrV(<<"1">>), IntV(2), StrV(<<>>), NoneV, Absent}
CaptureSenderIds == {StrV(<<"u">>), IntV(7), StrV(<<>>), NoneV, Absent}
CaptureBotIds == {StrV(<<"b">>), IntV(9), StrV(<<>>), NoneV, Absent}

\* (sender_name, sender.nickname, sender.card): each source alone, none, a
\* sender_name that is None beside a nickname, and all three.
CaptureNames ==
    {<<StrV(<<"A">>), Absent, Absent>>, <<Absent, StrV(<<"N">>), Absent>>,
     <<Absent, Absent, StrV(<<"K">>)>>, <<Absent, Absent, Absent>>,
     <<NoneV, StrV(<<"N">>), Absent>>, <<StrV(<<"A">>), StrV(<<"N">>), StrV(<<"K">>)>>}

\* Payloads of every shape, with text and blank.
CaptureChains ==
    {PlainChain(Hi), PlainChain(<<" ">>), PlainChain(<<>>),
     DirectChain(StrV(<<"t">>)), DirectChain(StrV(<<" ", "\t">>)), DirectChain(NoneV),
     Chain(TRUE, <<Part(StrV(<<"a">>), Absent, Absent), Part(Absent, StrV(<<"b">>), Absent)>>,
           Absent, Absent, <<"<", "o", ">">>),
     Chain(TRUE, <<Part(StrV(<<" ">>), Absent, Absent), Part(Absent, IntV(4), Absent)>>,
           Absent, Absent, <<"<", "o", ">">>),
     Chain(TRUE, <<>>, Absent, Absent, <<"<", "o", ">">>),
     Chain(FALSE, <<>>, Absent, Absent, <<"<", "o", ">">>),
     Chain(FALSE, <<>>, Absent, Absent, <<>>)}

CaptureGroupEvents ==
    {GroupMessageReceived(g, u, n[1], n[2], n[3], c) :
        g \in CaptureGroupIds, u \in CaptureSenderIds, n \in CaptureNames, c \in CaptureChains}

\* prefix and response_text: None, empty, whitespace-only, or text.
CaptureSegments == {NoneV, StrV(<<>>), StrV(<<" ">>), StrV(<<"p">>)}

CaptureBotEvents ==
    {NormalMessageResponded(t, g, p, r, b) :
        t \in {GroupType, PersonType, Absent}, g \in CaptureGroupIds,
        p \in CaptureSegments, r \in CaptureSegments, b \in CaptureBotIds}

\* The plugin after initialize() has returned (lines 63-78): configuration
\* loaded, engine and session factory created, tables created.
InitCapture ==
    /\ engine = TRUE
    /\ session_factory = TRUE
    /\ include_bot_messages \in BOOLEAN
    /\ \E pol \in Policies : group_whitelist = pol[1] /\ group_blacklist = pol[2]
    /\ initPc = "ok"
    /\ initError = "none"
    /\ records = <<>>
    /\ sessions = {}
    /\ h = [e \in Events |-> NewHandler]
    /\ destroyCalls = 0
    /\ disposeCalls = 0
    /\ escaped = 0
    /\ probe = NoProbe

\* The dispatcher delivers one event, of any content, as delivery 1.
DispatchCapture == \E ev \in CaptureGroupEvents \cup CaptureBotEvents : Deliver(1, ev)

NextCapture ==
    \/ DispatchCapture
    \/ CommitOk(1)
    \/ CommitFail(1)

SpecCapture == InitCapture /\ [][NextCapture]_vars

\* ------------------------------------------------------------ MessageNormalizer alone
\* Sub-parts: objects with a text attribute (a str, whitespace, None) and/or
\* a content attribute (a str, an int) or neither, and a part that is a str.
NormParts ==
    {Part(t, c, Absent) : t \in {Absent, StrV(<<"a">>), StrV(<<" ">>), NoneV},
                          c \in {Absent, StrV(<<"b">>), IntV(4)}}
    \cup {Part(Absent, Absent, StrV(<<"c">>))}

Opaque == <<"<", "o", ">">>

\* Payloads: composite chains of up to MaxParts sub-parts (with or without a
\* text attribute of their own), chains with only a text attribute, chains
\* that are a str, and objects that are none of these.
NormChains ==
    {Chain(TRUE, ms, t, Absent, Opaque) :
        ms \in UNION {[1..k -> NormParts] : k \in 0..MaxParts},
        t \in {Absent, StrV(<<"t">>)}}
    \cup {DirectChain(v) : v \in {StrV(<<"t">>), StrV(<<" ">>), NoneV, IntV(3)}}
    \cup {PlainChain(p) : p \in {Hi, <<" ">>, <<>>}}
    \cup {Chain(FALSE, <<>>, Absent, Absent, r) : r \in {Opaque, <<>>}}

\* The text extraction of on_group_message_received run on one payload, once
\* per behaviour.
CallExtractText ==
    /\ probe = NoProbe
    /\ \E c \in NormChains :
        probe' = [fn |-> "extract_text", arg |-> c, res |-> ExtractText(c)]
    /\ UNCHANGED <<plugin, config, lifecycle, records, sessions, h, shutdown, escaped>>

NextNormalize == CallExtractText

SpecNormalize == Init /\ [][NextNormalize]_vars

\* ------------------------------------------------------------ properties
\* Positions in the table of the rows event e produced.
RecordsOf(e) == {i \in DOMAIN records : records[i].ev = e}

\* Eligibility of a canonical group name under the configured policy.
Eligible(name) ==
    (group_whitelist = {} \/ name \in group_whitelist) /\ name \notin group_blacklist

\* Event ev is well formed, its group is eligible and its text is non-blank
\* (for a bot response: it is enabled and addressed to a group).
Persistable(ev) ==
    /\ HasAttr(ev.launcher_id)
    /\ Eligible(ToStr(ev.launcher_id))
    /\ IF ev.kind = "group_message"
       THEN /\ HasAttr(ev.sender_id)
            /\ LET t == ExtractText(ev.message_chain) IN
               ~t.raised /\ IsStr(t.val) /\ Strip(t.val.s) # <<>>
       ELSE /\ include_bot_messages
            /\ ev.launcher_type = GroupType
            /\ LET f == FullResponse(ev) IN ~f.raised /\ Strip(f.val) # <<>>

\* The row event e with input ev is to produce.
ExpectedRecord(e, ev) ==
    IF ev.kind = "group_message"
    THEN [ev |-> e, user_id |-> ToStr(ev.sender_id), nickname |-> Nickname(ev),
          message |-> ExtractText(ev.message_chain).val.s,
          group_id |-> ToStr(ev.launcher_id), is_bot_message |-> FALSE]
    ELSE [ev |-> e, user_id |-> ToStr(BotUserId(ev)), nickname |-> BotNickname,
          message |-> FullResponse(ev).val,
          group_id |-> ToStr(ev.launcher_id), is_bot_message |-> TRUE]

\* C1: per-event failure isolation.  No exception ever reaches the
\* dispatcher; a handler that failed (attribute access on a malformed event,
\* normalization, or a failed append) has returned, wrote no record and holds
\* no session; and an eligible event delivered to the initialized store after
\* an earlier handler failed is persisted unless its own append fails.
C1_FailureIsolated ==
    /\ escaped = 0
    /\ \A e \in Events : Failed(e) => RecordsOf(e) = {} /\ e \notin sessions
    /\ \A f \in Events :
        ( /\ h[f].pc = "done"
          /\ h[f].afterFailure
          /\ h[f].initAt = "ok"
          /\ Persistable(h[f].ev)
          /\ h[f].outcome # "storefail" )
        => Cardinality(RecordsOf(f)) = 1

\* C1 witness: an append failed and an event delivered afterwards was saved.
C1_Witness ==
    \E e, f \in Events :
        /\ h[e].outcome = "storefail"
        /\ h[f].afterFailure
        /\ h[f].outcome = "saved"
        /\ RecordsOf(f) # {}

\* C2: every stored record's group is eligible under the configured policy,
\* and a delivered event whose group is not eligible has no record and no
\* append in flight.
C2_StoredGroupsEligible ==
    /\ \A i \in DOMAIN records : Eligible(records[i].group_id)
    /\ \A e \in Events :
        ( /\ h[e].pc # "new"
          /\ HasAttr(h[e].ev.launcher_id)
          /\ ~Eligible(ToStr(h[e].ev.launcher_id)) )
        => RecordsOf(e) = {} /\ h[e].pc = "done"

\* C2 witness: under a non-empty whitelist one event was filtered out and
\* another one was stored.
C2_Witness ==
    /\ group_whitelist # {}
    /\ \E e \in Events : h[e].outcome = "filtered"
    /\ \E e \in Events : h[e].outcome = "saved" /\ RecordsOf(e) # {}

\* C3: _should_log_group(g) is true exactly when (the whitelist is empty or
\* holds str(g)) and the blacklist does not hold str(g); so it is true under
\* the empty policy, true iff str(g) = A under whitelist {A} with an empty
\* blacklist, and false for a group in both lists.
C3_ShouldRecord ==
    probe.fn = "_should_log_group" =>
        LET g == ToStr(probe.arg) IN
        /\ probe.res <=> ((group_whitelist = {} \/ g \in group_whitelist)
                            /\ g \notin group_blacklist)
        /\ (group_whitelist = {} /\ group_blacklist = {}) => probe.res
        /\ \A A \in FilterNames :
            (group_whitelist = {A} /\ group_blacklist = {}) => (probe.res <=> g = A)
        /\ (g \in group_whitelist /\ g \in group_blacklist) => ~probe.res

\* C3 witness: an int id whose string form is in both lists was rejected.
C3_Witness ==
    /\ probe.fn = "_should_log_group"
    /\ probe.arg = IntV(12)
    /\ <<"1", "2">> \in group_whitelist
    /\ <<"1", "2">> \in group_blacklist
    /\ ~probe.res

\* C4: an event delivered before initialize() has returned normally (never
\* called, still running, or failed) is skipped: its handler has returned,
\* opened no session, stored no record, and nothing escaped.
C4_AppendBeforeReadySkipped ==
    \A e \in Events :
        (h[e].pc # "new" /\ h[e].initAt # "ok") =>
            /\ h[e].pc = "done"
            /\ h[e].attempts = 0
            /\ RecordsOf(e) = {}
            /\ escaped = 0

\* C5: when creating the engine, connecting or creating the schema fails,
\* initialize() raises to its caller and the store is not ready (the test
\* _save_chat_record makes of session_factory fails).
C5_InitFailureNotReady ==
    initError # "none" => (initPc = "failed" /\ ~SaveGuard(session_factory))

\* C6: an event delivered after initialize() succeeded and destroy() has
\* disposed the engine opens no session and stores no record.
C6_NoAppendAfterShutdown ==
    \A e \in Events :
        (h[e].pc # "new" /\ h[e].initAt = "ok" /\ h[e].shutAt) =>
            h[e].attempts = 0 /\ RecordsOf(e) = {}

\* C7: after a successful initialize(), any number of destroy() calls raise
\* nothing and dispose the engine once.
C7_ShutdownReleasesOnce ==
    initPc = "ok" => (disposeCalls <= 1 /\ escaped = 0)

\* C8: while initialize() has not completed successfully (never called, or
\* failed), destroy() raises nothing and disposes nothing.
C8_ShutdownNoopWithoutInit ==
    initPc \in {"idle", "failed"} => (disposeCalls = 0 /\ escaped = 0)

\* C9: every event has at most one append attempt and at most one record,
\* and an event whose handler returned without saving has no record, in
\* every later state.
C9_AtMostOnce ==
    \A e \in Events :
        /\ h[e].attempts <= 1
        /\ Cardinality(RecordsOf(e)) <= 1
        /\ (h[e].pc = "done" /\ h[e].outcome # "saved") => RecordsOf(e) = {}

\* C9 witness: an event's only append failed, every handler has returned,
\* and the table holds another event's record and none of the failed one.
C9_Witness ==
    \E e \in Events :
        /\ h[e].outcome = "storefail"
        /\ h[e].attempts = 1
        /\ \A f \in Events : h[f].pc = "done"
        /\ records # <<>>
        /\ RecordsOf(e) = {}

\* C10: under every interleaving, an eligible event with non-blank text
\* delivered to the initialized store whose append did not fail has exactly
\* one record, equal to the record of its own fields; every stored record is
\* the record of its own event and no event has two; and the open sessions
\* are exactly those of the handlers suspended in their commit.
C10_ConcurrentAppendsIndependent ==
    /\ \A e \in Events :
        ( /\ h[e].pc = "done"
          /\ h[e].initAt = "ok"
          /\ Persistable(h[e].ev)
          /\ h[e].outcome # "storefail" )
        => \E i \in DOMAIN records :
              RecordsOf(e) = {i} /\ records[i] = ExpectedRecord(e, h[e].ev)
    /\ \A i \in DOMAIN records :
        /\ records[i].ev \in Events
        /\ records[i] = ExpectedRecord(records[i].ev, h[records[i].ev].ev)
        /\ \A j \in DOMAIN records : records[j].ev = records[i].ev => j = i
    /\ sessions = {e \in Events : h[e].pc = "commit"}

\* C10 witness: two handlers were in flight together on the initialized
\* store (the second delivered committed first) and both rows are stored.
C10_Witness ==
    /\ Len(records) = 2
    /\ records[1].ev = 2
    /\ records[2].ev = 1
    /\ h[1].initAt = "ok"
    /\ h[2].initAt = "ok"
    /\ records[1] # [records[2] EXCEPT !.ev = 2]

\* What a sub-part contributes: its text field if it has one, else its
\* content field if that is text, else itself if it is plain text, else nothing.
Contribution(part) ==
    IF HasAttr(part.text) THEN part.text.s
    ELSE IF HasAttr(part.content) /\ IsStr(part.content) THEN part.content.s
    ELSE IF IsStr(part.raw) THEN part.raw.s
    ELSE <<>>

RECURSIVE Concatenation(_)
Concatenation(parts) ==
    IF parts = <<>> THEN <<>>
    ELSE Contribution(Head(parts)) \o Concatenation(Tail(parts))

\* The text of a payload by shape precedence composite > direct-text >
\* plain-text > opaque.
ExpectedText(chain) ==
    IF chain.hasMessages THEN Concatenation(chain.messages)
    ELSE IF HasAttr(chain.text) THEN chain.text.s
    ELSE IF IsStr(chain.plain) THEN chain.plain.s
    ELSE chain.repr

\* Every text field the precedence selects holds text.
TextFieldsAreText(chain) ==
    IF chain.hasMessages
    THEN \A i \in DOMAIN chain.messages :
            HasAttr(chain.messages[i].text) => IsStr(chain.messages[i].text)
    ELSE HasAttr(chain.text) => IsStr(chain.text)

\* C17: for every payload whose selected text fields hold text, the extracted
\* text follows the precedence composite > direct-text > plain-text > opaque,
\* and for a composite payload it is the in-order concatenation of each
\* sub-part's contribution (text field, else text content, else the sub-part
\* itself if it is a str, else nothing).
C17_NormalizePrecedence ==
    (probe.fn = "extract_text" /\ TextFieldsAreText(probe.arg)) =>
        /\ ~probe.res.raised
        /\ probe.res.val = StrV(ExpectedText(probe.arg))

\* C17 witness: a composite chain that also has a text attribute, with a part
\* contributing its text, and a part whose non-text content is skipped.
C17_Witness ==
    /\ probe.fn = "extract_text"
    /\ probe.arg.hasMessages
    /\ probe.arg.text = StrV(<<"t">>)
    /\ probe.arg.messages = <<Part(StrV(<<"a">>), StrV(<<"b">>), Absent),
                              Part(Absent, IntV(4), Absent)>>
    /\ ~probe.res.raised
    /\ probe.res.val = StrV(<<"a">>)

\* C18: text extraction is total: for every payload, also one whose text or
\* content field holds a non-text value, it does not raise and yields a str.
C18_NormalizationTotal ==
    probe.fn = "extract_text" => (~probe.res.raised /\ IsStr(probe.res.val))

\* ---- one delivery
\* A text of whitespace only (or empty).
Blank(s) == \A i \in DOMAIN s : s[i] \in Whitespace

\* A delivered group message whose payload normalizes to text.
GroupMessageWithText ==
    /\ h[1].pc # "new"
    /\ h[1].ev.kind = "group_message"
    /\ TextFieldsAreText(h[1].ev.message_chain)

\* A delivered group message that is to be recorded: it carries its ids, its
\* group is eligible and its normalized text is not blank.
RecordableGroupMessage ==
    /\ GroupMessageWithText
    /\ HasAttr(h[1].ev.launcher_id)
    /\ HasAttr(h[1].ev.sender_id)
    /\ Eligible(ToStr(h[1].ev.launcher_id))
    /\ ~Blank(ExpectedText(h[1].ev.message_chain))

\* The append of delivery 1 is in progress or has ended, with or without a row.
Appending ==
    \/ h[1].pc = "commit" /\ sessions = {1} /\ records = <<>>
    \/ h[1].pc = "done" /\ h[1].outcome = "saved" /\ Len(records) = 1
    \/ h[1].pc = "done" /\ h[1].outcome = "storefail" /\ records = <<>>

\* Delivery 1 returned without an append.
Dropped ==
    /\ h[1].pc = "done"
    /\ h[1].outcome \notin {"saved", "storefail"}
    /\ records = <<>>
    /\ sessions = {}

\* C11: no stored record has an empty or whitespace-only message, and a group
\* message whose normalized text is empty or whitespace-only, whatever the
\* shape of its payload, returns without a record.
C11_NoBlankMessage ==
    /\ \A i \in DOMAIN records : ~Blank(records[i].message)
    /\ (GroupMessageWithText /\ Blank(ExpectedText(h[1].ev.message_chain))) => Dropped

\* C11 witness: an eligible group message whose composite payload joins to
\* whitespace has returned as blank with nothing stored.
C11_Witness ==
    /\ h[1].pc = "done"
    /\ h[1].outcome = "blank"
    /\ h[1].ev.kind = "group_message"
    /\ h[1].ev.message_chain.hasMessages
    /\ h[1].ev.message_chain.messages # <<>>
    /\ records = <<>>

\* C12: every stored record has a non-empty user_id and a non-empty group_id,
\* whatever raw sender id, bot account id and group id the event carried.
C12_IdsNonEmpty ==
    \A i \in DOMAIN records : records[i].user_id # <<>> /\ records[i].group_id # <<>>

\* The nickname a group message is to be stored with: the sender name when
\* the event supplies one, none when no source of a name is present.
NicknameAsClaimed(ev, nickname) ==
    /\ IsStr(ev.sender_name) => nickname = ev.sender_name
    /\ (~HasAttr(ev.sender_name) /\ ~HasAttr(ev.sender_nickname) /\ ~HasAttr(ev.sender_card))
            => nickname = NoneV

\* C13: an eligible group message with non-blank text delivered to the
\* initialized store is appended, and unless the commit fails exactly one
\* record is stored, with user_id = str(sender_id), group_id =
\* str(launcher_id), message = the normalized text, is_bot_message = False,
\* and nickname = sender_name when the event has one, None when no name is known.
C13_GroupMessageRecord ==
    RecordableGroupMessage =>
        /\ Appending
        /\ h[1].outcome = "saved" =>
            /\ records[1].user_id = ToStr(h[1].ev.sender_id)
            /\ records[1].group_id = ToStr(h[1].ev.launcher_id)
            /\ records[1].message = ExpectedText(h[1].ev.message_chain)
            /\ records[1].is_bot_message = FALSE
            /\ NicknameAsClaimed(h[1].ev, records[1].nickname)

\* C13 witness: a group message with an int sender id, a sender_name beside a
\* sender nickname, and a composite payload has been stored.
C13_Witness ==
    /\ h[1].outcome = "saved"
    /\ h[1].ev.kind = "group_message"
    /\ h[1].ev.sender_id = IntV(7)
    /\ h[1].ev.sender_name = StrV(<<"A">>)
    /\ h[1].ev.sender_nickname = StrV(<<"N">>)
    /\ Len(records) = 1
    /\ records[1].user_id = <<"7">>
    /\ records[1].nickname = StrV(<<"A">>)
    /\ records[1].message = <<"a", "b">>

\* What a segment of a bot response contributes: its text, nothing if absent.
Segment(v) == IF IsStr(v) THEN v.s ELSE <<>>

Concatenation2(ev) == Segment(ev.prefix) \o Segment(ev.response_text)

C15_BotResponseGate ==
    /\ \A i \in DOMAIN records : records[i].is_bot_message =>
            h[1].ev.launcher_type = GroupType /\ include_bot_messages
    /\ (h[1].pc # "new" /\ h[1].ev.kind = "bot_response"
            /\ (h[1].ev.launcher_type # GroupType \/ ~include_bot_messages)) => Dropped
    /\ (RecordableGroupMessage /\ ~include_bot_messages) => Appending

\* C15 witness: under the unrestricted policy with the flag on, a response with
\* text addressed to a private conversation has returned with nothing stored.
C15_Witness ==
    /\ include_bot_messages
    /\ group_whitelist = {} /\ group_blacklist = {}
    /\ h[1].pc = "done"
    /\ h[1].outcome = "nongroup"
    /\ h[1].ev.launcher_type = PersonType
    /\ h[1].ev.prefix = StrV(<<"p">>)
    /\ records = <<>>

\* A delivered response to an eligible group with the flag on.
EligibleGroupResponse ==
    /\ h[1].pc # "new"
    /\ h[1].ev.kind = "bot_response"
    /\ include_bot_messages
    /\ h[1].ev.launcher_type = GroupType
    /\ HasAttr(h[1].ev.launcher_id)
    /\ Eligible(ToStr(h[1].ev.launcher_id))

\* C16 as stated: a response to an eligible group with the flag on is dropped
\* if and only if prefix + response text is empty, and appended otherwise.
C16_DroppedIffEmpty ==
    EligibleGroupResponse =>
        /\ Dropped <=> Concatenation2(h[1].ev) = <<>>
        /\ ~Dropped => Appending

\* C16 amended: a response to an eligible group with the flag on is dropped if
\* and only if prefix + response text is empty or whitespace-only, and
\* appended (one record unless the commit fails) otherwise.
C16_DroppedIffBlank ==
    EligibleGroupResponse =>
        /\ Dropped <=> Blank(Concatenation2(h[1].ev))
        /\ ~Dropped => Appending

\* C16 witness: a response whose prefix is a space and whose body is None has
\* been dropped as blank although its concatenation is not empty.
C16_Witness ==
    /\ EligibleGroupResponse
    /\ h[1].ev.prefix = StrV(<<" ">>)
    /\ h[1].ev.response_text = NoneV
    /\ h[1].outcome = "blank"
    /\ Dropped

\* ---- every operation
\* C19: stored records are append-only: every step of every operation
\* (a handler, a successful or failed commit, initialize, destroy) leaves each
\* stored record in place and unchanged, and adds at most one record.
C19_AppendOnly ==
    [][/\ Len(records') >= Len(records)
       /\ Len(records') <= Len(records) + 1
       /\ SubSeq(records', 1, Len(records)) = records]_vars

\* C19 witness: a record is stored, and a failed commit and destroy() have
\* run and left it in place.
C19_Witness ==
    /\ Len(records) = 1
    /\ \E e \in Events : h[e].outcome = "saved" /\ RecordsOf(e) = {1}
    /\ \E e \in Events : h[e].outcome = "storefail"
    /\ destroyCalls > 0

\* C20: a handler that has returned holds no session, whether its commit
\* succeeded or failed; the open sessions are those of the handlers suspended
\* in commit; so with no handler in flight no session is open.
C20_SessionsReleased ==
    /\ sessions = {e \in Events : h[e].pc = "commit"}
    /\ (\A e \in Events : h[e].pc # "commit") => sessions = {}

\* C20 witness: one append succeeded, one failed, no handler is in flight and
\* no session is open.
C20_Witness ==
    /\ \E e \in Events : h[e].outcome = "saved" /\ h[e].attempts = 1
    /\ \E e \in Events : h[e].outcome = "storefail" /\ h[e].attempts = 1
    /\ \A e \in Events : h[e].pc = "done"
    /\ sessions = {}

====
